---- MODULE Spec2Model ----
(***************************************************************************)
(* rss_to_social.py: one invocation of main() polls the configured feeds,  *)
(* selects the entries that are new with respect to the per-feed watermark *)
(* (last_runs), dispatches them to the active publishers and saves the     *)
(* watermark map.  The model covers a bounded number of successive         *)
(* invocations sharing the watermark file.                                 *)
(*                                                                         *)
(* Time is counted in whole seconds since the epoch.  A struct_time is the *)
(* pair <<wall, isdst>>: Python compares struct_time values as 9-tuples,   *)
(* the first eight fields are ordered like the wall-clock second they      *)
(* denote, and the ninth is tm_isdst.  feedparser delivers UTC tuples      *)
(* (tm_isdst = 0); datetime.timetuple() of a naive local datetime delivers *)
(* local wall-clock tuples with tm_isdst = -1.                             *)
(***************************************************************************)
EXTENDS Integers, Sequences, FiniteSets, TLC

\* ---- bounds of the model ----
NumFeeds == 2
MaxEntries == 2
MaxTime == 1
MaxForce == 1
MaxRuns == 2

Feeds == 1..NumFeeds
Times == 0..MaxTime

\* local-time offsets (seconds east of UTC) of the host running the process
TZOffsets == {0, 1}

VARIABLES
    file_exists,    \* os.path.exists(LAST_RUNS_PATH)
    file_data,      \* JSON object of the watermark file: feed -> epoch seconds
    file_torn,      \* the watermark file was truncated and not written in full
    tmp_files,      \* number of temporary image files of download_image on disk
    clock,          \* wall clock of the host (epoch seconds)
    runs,           \* number of invocations of main() started so far
    pc,             \* position of the running process in main()
    exit_code,      \* exit status of the last process (-1 while running)
    crash,          \* the call whose exception escaped main(), or "none"
    missing_config, \* the environment variable whose absence ended the process, or "none"
    tz,             \* local-time offset of the running process
    last_runs,      \* main: last_runs (feed -> struct_time)
    feed_urls,      \* main: feed_urls
    active_socials, \* main: active_socials
    credentials,    \* publishers whose required environment variables are all set
    force_latest,   \* main: force_latest
    now,            \* main: now
    idx,            \* main: idx of the feed loop (1-based)
    entries,        \* feed.entries of the feed being processed
    new_entries,    \* main: new_entries
    k,              \* position of the entry loop in new_entries (1-based)
    post,           \* the Post under dispatch: "none", "text" or "image" (image_path set)
    loaded_file,    \* history: file_data as load_last_runs found it
    dispatched,     \* history: the publisher calls <<idx, k, social>> of this run, in order
    fetch_failed,   \* history: feeds whose fetch failed in this run
    processed,      \* history: the feeds parsed in this run, in order
    yielded,        \* history: feeds with at least one selected entry in this run
    stored,         \* history: number of times this run opened the file for writing
    started_at,     \* history: the clock when main captured now (-1 before)
    n_selected,     \* history: len(new_entries) of each parsed feed, in order
    config_errors   \* history: "Could not post" errors logged per publisher in this run

vars == <<file_exists, file_data, file_torn, tmp_files, clock, runs, pc,
          exit_code, crash, missing_config, tz, last_runs, feed_urls,
          active_socials, credentials, force_latest, now, idx, entries,
          new_entries, k, post, loaded_file, dispatched, fetch_failed,
          processed, yielded, stored, started_at, n_selected, config_errors>>

\* ---- struct_time and the conversions of load_last_runs / store_last_runs ----

\* feedparser's published_parsed: the UTC 9-tuple of the instant
utctimetuple(t) == <<t, 0>>

\* datetime.fromtimestamp(t).timetuple(): local wall clock, tm_isdst = -1
fromtimestamp_timetuple(t, off) == <<t + off, -1>>

\* time.mktime(st): local wall clock back to epoch seconds
mktime(st, off) == st[1] - off

\* struct_time.__gt__: tuple comparison, tm_isdst is the last field
struct_time_gt(a, b) == a[1] > b[1] \/ (a[1] = b[1] /\ a[2] > b[2])

\* a comparison that takes equal keys for smaller: the sort loses stability
struct_time_le(a, b) == a[1] < b[1] \/ (a[1] = b[1] /\ a[2] <= b[2])

\* struct_time.__lt__, as used by sorted()
struct_time_lt(a, b) == a[1] < b[1] \/ (a[1] = b[1] /\ a[2] < b[2])

\* ---- the feed source (feedparser.parse) ----

\* a FeedParserDict entry: id is its position in the fetched document; the
\* key published_parsed is absent when the document carries no publish date
Entry(i, t) == [id |-> i, published_parsed |-> utctimetuple(t)]
EntryNoDate(i) == [id |-> i]
HasPublished(e) == "published_parsed" \in DOMAIN e

\* what the document says about each entry: a publish instant, or nothing
NoDate == MaxTime + 1
Documents == UNION {[1..n -> Times \cup {NoDate}] : n \in 0..MaxEntries}
FeedEntries(doc) ==
    [i \in 1..Len(doc) |->
        IF doc[i] = NoDate THEN EntryNoDate(i) ELSE Entry(i, doc[i])]

\* ---- sorted(feed.entries, key=published_parsed, reverse=True) ----

\* the key function raises AttributeError on an entry without the key
SortRaises(es) == \E i \in 1..Len(es) : ~HasPublished(es[i])

RECURSIVE InsertDesc(_, _)
InsertDesc(e, s) ==
    IF s = <<>> THEN <<e>>
    ELSE IF struct_time_lt(Head(s).published_parsed, e.published_parsed)
         THEN <<e>> \o s
         ELSE <<Head(s)>> \o InsertDesc(e, Tail(s))

RECURSIVE SortInto(_, _)
SortInto(es, acc) ==
    IF es = <<>> THEN acc ELSE SortInto(Tail(es), InsertDesc(Head(es), acc))

\* stable, descending
sorted_entries(es) == SortInto(es, <<>>)

\* ---- the selection loop of main ----

\* a selection that reads an absent watermark as time zero
\* (last_runs.get(feed_url, <time zero>))
IsNewDefaultZero(entry, n, feed_url, lr, force) ==
    \/ n < force
    \/ struct_time_gt(entry.published_parsed,
                      IF feed_url \in DOMAIN lr THEN lr[feed_url]
                      ELSE fromtimestamp_timetuple(0, tz))

\* the condition of the if inside the loop; n is the 0-based rank
IsNew(entry, n, feed_url, lr, force) ==
    \/ feed_url \notin DOMAIN lr
    \/ n < force
    \/ struct_time_gt(entry.published_parsed, lr[feed_url])

RECURSIVE SelectFrom(_, _, _, _, _)
SelectFrom(s, n, feed_url, lr, force) ==
    IF s = <<>> THEN <<>>
    ELSE (IF IsNew(Head(s), n, feed_url, lr, force) THEN <<Head(s)>> ELSE <<>>)
         \o SelectFrom(Tail(s), n + 1, feed_url, lr, force)

select_new_entries(s, feed_url, lr, force) == SelectFrom(s, 0, feed_url, lr, force)

\* ---- configuration read from the environment ----

\* RSS_FEED_URLS.splitlines(): ordered lists of distinct feed identifiers
FeedLists == {s \in UNION {[1..n -> Feeds] : n \in 0..NumFeeds} :
                 \A i, j \in DOMAIN s : i # j => s[i] # s[j]}

Socials == {"bluesky", "reddit", "discord"}

\* ---- the watermark store ----

\* load_last_runs: {} when the file does not exist, else every value converted
load_last_runs(exists, data, off) ==
    IF exists
    THEN [f \in DOMAIN data |-> fromtimestamp_timetuple(data[f], off)]
    ELSE <<>>

\* a save that writes the watermarks of the configured feeds only
iso_last_runs_configured(lr, off) ==
    [f \in DOMAIN lr \cap {feed_urls[i] : i \in DOMAIN feed_urls} |->
        mktime(lr[f], off)]

\* store_last_runs: every value converted back
iso_last_runs(lr, off) == [f \in DOMAIN lr |-> mktime(lr[f], off)]

\* a watermark taken from the most recent selected entry instead of now
set_last_run_to_entry(lr, feed_url, st) ==
    [f \in DOMAIN lr \cup {feed_url} |->
        IF f = feed_url
        THEN fromtimestamp_timetuple(new_entries[1].published_parsed[1], tz)
        ELSE lr[f]]

\* last_runs[feed_url] = now
set_last_run(lr, feed_url, st) ==
    [f \in DOMAIN lr \cup {feed_url} |-> IF f = feed_url THEN st ELSE lr[f]]

\* ---- initial state: nothing stored, no process has run ----

Init ==
    /\ file_exists = FALSE
    /\ file_data = <<>>
    /\ file_torn = FALSE
    /\ tmp_files = 0
    /\ clock = 0
    /\ runs = 0
    /\ pc = "idle"
    /\ exit_code = -1
    /\ crash = "none"
    /\ missing_config = "none"
    /\ tz = 0
    /\ last_runs = <<>>
    /\ feed_urls = <<>>
    /\ active_socials = {}
    /\ credentials = {}
    /\ force_latest = 0
    /\ now = <<0, -1>>
    /\ idx = 1
    /\ entries = <<>>
    /\ new_entries = <<>>
    /\ k = 1
    /\ post = "none"
    /\ loaded_file = <<>>
    /\ dispatched = <<>>
    /\ fetch_failed = {}
    /\ processed = <<>>
    /\ yielded = {}
    /\ stored = 0
    /\ started_at = -1
    /\ n_selected = <<>>
    /\ config_errors = [s \in Socials |-> 0]

\* the in-memory state of main, gone when the process ends
process_vars == <<tz, last_runs, feed_urls, active_socials, credentials,
                  force_latest, now, idx, entries, new_entries, k, post>>
history_vars == <<loaded_file, dispatched, fetch_failed, processed, yielded,
                  stored, started_at, n_selected, config_errors>>
store_vars == <<file_exists, file_data, file_torn>>

\* the host's clock advances between invocations
Tick ==
    /\ pc = "idle"
    /\ clock < MaxTime
    /\ clock' = clock + 1
    /\ UNCHANGED <<store_vars, tmp_files, runs, pc, exit_code, crash,
                   missing_config, process_vars, history_vars>>

NoProcess ==
    /\ tz' = 0
    /\ last_runs' = <<>>
    /\ feed_urls' = <<>>
    /\ active_socials' = {}
    /\ credentials' = {}
    /\ force_latest' = 0
    /\ now' = <<0, -1>>
    /\ idx' = 1
    /\ entries' = <<>>
    /\ new_entries' = <<>>
    /\ k' = 1
    /\ post' = "none"

\* a Post without __del__: its temporary image stays on disk
del_post_never(p, n) == n

\* Post.__del__: the temporary image of a Post with image_path set is
\* unlinked when the Post is dropped; n is the number of files on disk
del_post(p, n) == IF p = "image" THEN n - 1 ELSE n

\* the process ends, by the return of main or by an uncaught exception;
\* the Post still bound in main's frame is dropped on the way out
Terminated(code, cause) ==
    /\ pc' = "idle"
    /\ exit_code' = code
    /\ crash' = cause
    /\ missing_config' = "none"
    /\ tmp_files' = del_post(post, tmp_files)
    /\ NoProcess

\* a sys.exit that ends every missing-configuration case with status 1
sys_exit_one(code, variable) ==
    /\ pc' = "idle"
    /\ exit_code' = 1
    /\ crash' = "none"
    /\ missing_config' = variable
    /\ tmp_files' = del_post(post, tmp_files)
    /\ NoProcess

\* log.error("... not set") and sys.exit(code) of a load_* function
sys_exit(code, variable) ==
    /\ pc' = "idle"
    /\ exit_code' = code
    /\ crash' = "none"
    /\ missing_config' = variable
    /\ tmp_files' = del_post(post, tmp_files)
    /\ NoProcess

\* a new invocation of main(): the histories of the run start empty
NewRun ==
    /\ pc = "idle"
    /\ runs < MaxRuns
    /\ runs' = runs + 1
    /\ loaded_file' = file_data
    /\ dispatched' = <<>>
    /\ fetch_failed' = {}
    /\ processed' = <<>>
    /\ yielded' = {}
    /\ stored' = 0
    /\ started_at' = -1
    /\ n_selected' = <<>>
    /\ config_errors' = [s \in Socials |-> 0]

\* main is entered with --force-latest / FORCE_LATEST parsed; load_last_runs:
\* sys.exit(1) when LAST_RUNS_PATH is unset; json.load raises on a file that
\* does not hold a complete JSON document
LoadLastRuns ==
    /\ NewRun
    /\ \E path_set \in BOOLEAN, off \in TZOffsets, force \in 0..MaxForce :
        IF ~path_set
        THEN sys_exit(1, "LAST_RUNS_PATH")
        ELSE IF file_exists /\ file_torn
        THEN Terminated(1, "load_last_runs")
        ELSE /\ tz' = off
             /\ force_latest' = force
             /\ last_runs' = load_last_runs(file_exists, file_data, off)
             /\ pc' = "load_feed_urls"
             /\ exit_code' = -1
             /\ crash' = "none"
             /\ missing_config' = "none"
             /\ UNCHANGED <<feed_urls, active_socials, credentials, now, idx,
                            entries, new_entries, k, post, tmp_files>>
    /\ UNCHANGED <<store_vars, clock>>

\* load_feed_urls: sys.exit(2) when RSS_FEED_URLS is unset
LoadFeedUrls ==
    /\ pc = "load_feed_urls"
    /\ \E urls_set \in BOOLEAN, urls \in FeedLists :
        IF urls_set
        THEN /\ feed_urls' = urls
             /\ pc' = "load_active_socials"
             /\ UNCHANGED <<exit_code, crash, missing_config, tz, last_runs,
                            active_socials, credentials, force_latest, now,
                            idx, entries, new_entries, k, post, tmp_files>>
        ELSE sys_exit(2, "RSS_FEED_URLS")
    /\ UNCHANGED <<store_vars, clock, runs, history_vars>>

\* load_active_socials: sys.exit(2) when ACTIVE_SOCIALS is unset; then now.
\* The credentials of the active publishers are part of the same environment.
LoadActiveSocials ==
    /\ pc = "load_active_socials"
    /\ \E socials_set \in BOOLEAN, act \in SUBSET Socials :
        IF socials_set
        THEN /\ active_socials' = act
             /\ \E cr \in SUBSET act : credentials' = cr
             /\ now' = fromtimestamp_timetuple(clock, tz)
             /\ started_at' = clock
             /\ pc' = "feed"
             /\ UNCHANGED <<exit_code, crash, missing_config, tz, last_runs,
                            feed_urls, force_latest, idx, entries,
                            new_entries, k, post, tmp_files>>
        ELSE /\ sys_exit(2, "ACTIVE_SOCIALS")
             /\ UNCHANGED started_at
    /\ UNCHANGED <<store_vars, clock, runs, loaded_file, dispatched,
                   fetch_failed, processed, yielded, stored, n_selected,
                   config_errors>>

\* a feed loop in which a failed fetch raises out of main
ParseFeedFetchRaises ==
    /\ pc = "feed"
    /\ idx <= Len(feed_urls)
    /\ \E ok \in BOOLEAN, doc \in Documents :
        /\ ~ok => doc = <<>>
        /\ fetch_failed' = IF ok THEN fetch_failed
                           ELSE fetch_failed \cup {feed_urls[idx]}
        /\ processed' = Append(processed, feed_urls[idx])
        /\ IF ~ok \/ SortRaises(FeedEntries(doc))
           THEN /\ Terminated(1, IF ok THEN "sorted" ELSE "parse")
                /\ n_selected' = Append(n_selected, 0)
           ELSE /\ entries' = FeedEntries(doc)
                /\ new_entries' =
                       select_new_entries(sorted_entries(FeedEntries(doc)),
                                          feed_urls[idx], last_runs, force_latest)
                /\ n_selected' = Append(n_selected, Len(new_entries'))
                /\ pc' = "selected"
                /\ UNCHANGED <<exit_code, crash, missing_config, tz,
                               last_runs, feed_urls, active_socials,
                               credentials, force_latest, now, idx, k, post,
                               tmp_files>>
    /\ UNCHANGED <<store_vars, clock, runs, loaded_file, dispatched, yielded,
                   stored, started_at, config_errors>>

\* one pass of the feed loop up to the end of the selection loop:
\* feedparser.parse (a failed fetch yields no entries), sorted, selection
ParseFeed ==
    /\ pc = "feed"
    /\ idx <= Len(feed_urls)
    /\ \E ok \in BOOLEAN, doc \in Documents :
        /\ ~ok => doc = <<>>
        /\ fetch_failed' = IF ok THEN fetch_failed
                           ELSE fetch_failed \cup {feed_urls[idx]}
        /\ processed' = Append(processed, feed_urls[idx])
        /\ IF SortRaises(FeedEntries(doc))
           THEN /\ Terminated(1, "sorted")
                /\ n_selected' = Append(n_selected, 0)
           ELSE /\ entries' = FeedEntries(doc)
                /\ new_entries' =
                       select_new_entries(sorted_entries(FeedEntries(doc)),
                                          feed_urls[idx], last_runs, force_latest)
                /\ n_selected' = Append(n_selected, Len(new_entries'))
                /\ pc' = "selected"
                /\ UNCHANGED <<exit_code, crash, missing_config, tz,
                               last_runs, feed_urls, active_socials,
                               credentials, force_latest, now, idx, k, post,
                               tmp_files>>
    /\ UNCHANGED <<store_vars, clock, runs, loaded_file, dispatched, yielded,
                   stored, started_at, config_errors>>

\* a branch that sets the watermark of a feed without new entries too
BranchAlwaysUpdates ==
    /\ pc = "selected"
    /\ IF Len(new_entries) > 0
       THEN /\ pc' = "from_entry"
            /\ k' = 1
            /\ yielded' = yielded \cup {feed_urls[idx]}
            /\ UNCHANGED <<idx, last_runs>>
       ELSE /\ pc' = "feed"
            /\ idx' = idx + 1
            /\ last_runs' = set_last_run(last_runs, feed_urls[idx], now)
            /\ UNCHANGED <<k, yielded>>
    /\ UNCHANGED <<store_vars, tmp_files, clock, runs, exit_code, crash,
                   missing_config, tz, feed_urls, active_socials, credentials,
                   force_latest, now, entries, new_entries, post, loaded_file,
                   dispatched, fetch_failed, processed, stored, started_at,
                   n_selected, config_errors>>

\* a branch that sets the watermark of the feed before its entries are
\* dispatched
BranchUpdatesFirst ==
    /\ pc = "selected"
    /\ IF Len(new_entries) > 0
       THEN /\ pc' = "from_entry"
            /\ k' = 1
            /\ yielded' = yielded \cup {feed_urls[idx]}
            /\ last_runs' = set_last_run(last_runs, feed_urls[idx], now)
            /\ UNCHANGED idx
       ELSE /\ pc' = "feed"
            /\ idx' = idx + 1
            /\ UNCHANGED <<k, yielded, last_runs>>
    /\ UNCHANGED <<store_vars, tmp_files, clock, runs, exit_code, crash,
                   missing_config, tz, feed_urls, active_socials, credentials,
                   force_latest, now, entries, new_entries, post, loaded_file,
                   dispatched, fetch_failed, processed, stored, started_at,
                   n_selected, config_errors>>

\* if len(new_entries) > 0: ... else: skipping
Branch ==
    /\ pc = "selected"
    /\ IF Len(new_entries) > 0
       THEN /\ pc' = "from_entry"
            /\ k' = 1
            /\ yielded' = yielded \cup {feed_urls[idx]}
            /\ UNCHANGED idx
       ELSE /\ pc' = "feed"
            /\ idx' = idx + 1
            /\ UNCHANGED <<k, yielded>>
    /\ UNCHANGED <<store_vars, tmp_files, clock, runs, exit_code, crash,
                   missing_config, tz, last_runs, feed_urls, active_socials,
                   credentials, force_latest, now, entries, new_entries, post,
                   loaded_file, dispatched, fetch_failed, processed, stored,
                   started_at, n_selected, config_errors>>

\* what a step of the entry loop that does not raise leaves alone
loop_frame == <<exit_code, crash, missing_config, tz, last_runs, feed_urls,
                active_socials, credentials, force_latest, now, idx, entries,
                new_entries>>

\* post = Post.from_entry(entry): a missing title, summary or link raises
\* AttributeError, a failed download raises out of download_image before
\* any temporary file is made; a download that succeeds leaves its file on
\* disk, and the assignment drops the Post of the entry before
FromEntry ==
    /\ pc = "from_entry"
    /\ \E outcome \in {"text", "image", "entry_field", "download_image"} :
        IF outcome \in {"text", "image"}
        THEN /\ post' = outcome
             /\ tmp_files' = del_post(post, IF outcome = "image"
                                             THEN tmp_files + 1 ELSE tmp_files)
             /\ pc' = "bluesky"
             /\ UNCHANGED <<loop_frame, k>>
        ELSE Terminated(1, outcome)
    /\ UNCHANGED <<store_vars, clock, runs, history_vars>>

\* the record of a publisher call: the k-th selected entry of the idx-th feed
Attempt(social) == <<idx, k, social>>

\* outcomes of post_to_bluesky: a missing credential returns early; an
\* AtProtocolError is caught; the ValueError of resize_image is not
BlueskyOutcomes(p, cr) ==
    IF "bluesky" \notin cr THEN {"not_configured"}
    ELSE {"posted", "failed"} \cup (IF p = "image" THEN {"raised"} ELSE {})

\* outcomes of post_to_reddit: no exception of praw is caught
RedditOutcomes(cr) ==
    IF "reddit" \notin cr THEN {"not_configured"} ELSE {"posted", "raised"}

\* outcomes of post_to_discord: a response that is not ok is logged; an
\* exception of requests.post is not caught
DiscordOutcomes(cr) ==
    IF "discord" \notin cr THEN {"not_configured"}
    ELSE {"posted", "failed", "raised"}

\* the "Could not post to ...: ... not set" error of a publisher that finds a
\* required environment variable unset
log_config_error(social, outcome) ==
    IF outcome = "not_configured"
    THEN [config_errors EXCEPT ![social] = @ + 1]
    ELSE config_errors

\* if "bluesky" in active_socials: post_to_bluesky(post)
DispatchBluesky ==
    /\ pc = "bluesky"
    /\ IF "bluesky" \in active_socials
       THEN /\ dispatched' = Append(dispatched, Attempt("bluesky"))
            /\ \E outcome \in BlueskyOutcomes(post, credentials) :
                /\ config_errors' = log_config_error("bluesky", outcome)
                /\ IF outcome = "raised"
                   THEN Terminated(1, "post_to_bluesky")
                   ELSE /\ pc' = "reddit"
                        /\ UNCHANGED <<loop_frame, k, post, tmp_files>>
       ELSE /\ pc' = "reddit"
            /\ UNCHANGED <<dispatched, config_errors, loop_frame, k, post,
                           tmp_files>>
    /\ UNCHANGED <<store_vars, clock, runs, loaded_file, fetch_failed,
                   processed, yielded, stored, started_at, n_selected>>

\* if "reddit" in active_socials: post_to_reddit(post)
DispatchReddit ==
    /\ pc = "reddit"
    /\ IF "reddit" \in active_socials
       THEN /\ dispatched' = Append(dispatched, Attempt("reddit"))
            /\ \E outcome \in RedditOutcomes(credentials) :
                /\ config_errors' = log_config_error("reddit", outcome)
                /\ IF outcome = "raised"
                   THEN Terminated(1, "post_to_reddit")
                   ELSE /\ pc' = "discord"
                        /\ UNCHANGED <<loop_frame, k, post, tmp_files>>
       ELSE /\ pc' = "discord"
            /\ UNCHANGED <<dispatched, config_errors, loop_frame, k, post,
                           tmp_files>>
    /\ UNCHANGED <<store_vars, clock, runs, loaded_file, fetch_failed,
                   processed, yielded, stored, started_at, n_selected>>

\* the entry loop goes on with the next entry, or ends
NextEntry ==
    /\ k' = k + 1
    /\ pc' = IF k < Len(new_entries) THEN "from_entry" ELSE "update"
    /\ UNCHANGED <<loop_frame, post, tmp_files>>

\* if "discord" in active_socials: post_to_discord(post); end of the loop body
DispatchDiscord ==
    /\ pc = "discord"
    /\ IF "discord" \in active_socials
       THEN /\ dispatched' = Append(dispatched, Attempt("discord"))
            /\ \E outcome \in DiscordOutcomes(credentials) :
                /\ config_errors' = log_config_error("discord", outcome)
                /\ IF outcome = "raised"
                   THEN Terminated(1, "post_to_discord")
                   ELSE NextEntry
       ELSE /\ NextEntry
            /\ UNCHANGED <<dispatched, config_errors>>
    /\ UNCHANGED <<store_vars, clock, runs, loaded_file, fetch_failed,
                   processed, yielded, stored, started_at, n_selected>>

\* a feed loop that saves the watermark map after each update
UpdateLastRunAndStore ==
    /\ pc = "update"
    /\ last_runs' = set_last_run(last_runs, feed_urls[idx], now)
    /\ idx' = idx + 1
    /\ pc' = "feed"
    /\ file_exists' = TRUE
    /\ file_data' = iso_last_runs(last_runs', tz)
    /\ file_torn' = FALSE
    /\ stored' = stored + 1
    /\ UNCHANGED <<tmp_files, clock, runs, exit_code, crash, missing_config,
                   tz, feed_urls, active_socials, credentials, force_latest,
                   now, entries, new_entries, k, post, loaded_file,
                   dispatched, fetch_failed, processed, yielded, started_at,
                   n_selected, config_errors>>

\* last_runs[feed_url] = now, and on to the next feed
UpdateLastRun ==
    /\ pc = "update"
    /\ last_runs' = set_last_run(last_runs, feed_urls[idx], now)
    /\ idx' = idx + 1
    /\ pc' = "feed"
    /\ UNCHANGED <<store_vars, tmp_files, clock, runs, exit_code, crash,
                   missing_config, tz, feed_urls, active_socials, credentials,
                   force_latest, now, entries, new_entries, k, post,
                   history_vars>>

\* store_last_runs(last_runs) after the feed loop, and the end of main.
\* open(path, "w") may fail and leave the file alone; once it has succeeded
\* the file is empty, and json.dump writes the new map into it unless a
\* write raises on the way
StoreLastRuns ==
    /\ pc = "feed"
    /\ idx > Len(feed_urls)
    /\ \E outcome \in {"written", "open_failed", "interrupted"} :
        IF outcome = "open_failed"
        THEN /\ UNCHANGED <<store_vars, stored>>
             /\ Terminated(1, "store_last_runs")
        ELSE /\ file_exists' = TRUE
             /\ stored' = stored + 1
             /\ IF outcome = "written"
                THEN /\ file_data' = iso_last_runs(last_runs, tz)
                     /\ file_torn' = FALSE
                     /\ Terminated(0, "none")
                ELSE /\ file_data' = <<>>
                     /\ file_torn' = TRUE
                     /\ Terminated(1, "store_last_runs")
    /\ UNCHANGED <<clock, runs, loaded_file, dispatched, fetch_failed,
                   processed, yielded, started_at, n_selected, config_errors>>

Next ==
    \/ Tick
    \/ LoadLastRuns
    \/ LoadFeedUrls
    \/ LoadActiveSocials
    \/ ParseFeed
    \/ Branch
    \/ FromEntry
    \/ DispatchBluesky
    \/ DispatchReddit
    \/ DispatchDiscord
    \/ UpdateLastRun
    \/ StoreLastRuns

Spec == Init /\ [][Next]_vars

TypeOK ==
    /\ file_exists \in BOOLEAN
    /\ DOMAIN file_data \subseteq Feeds
    /\ \A f \in DOMAIN file_data : file_data[f] \in Times
    /\ clock \in Times
    /\ runs \in 0..MaxRuns
    /\ idx \in 1..(NumFeeds + 1)
    /\ Len(new_entries) <= MaxEntries
    /\ file_torn \in BOOLEAN
    /\ tmp_files \in 0..1
    /\ started_at \in Times \cup {-1}
    /\ Len(n_selected) = Len(processed)
    /\ \A s \in Socials : config_errors[s] \in 0..(NumFeeds * MaxEntries)

\* ---- the claims ----

\* the feed under selection or dispatch, an entry's publish instant, and the
\* watermark of a feed as the instant the store holds for it
CurFeed == feed_urls[idx]
Instant(e) == e.published_parsed[1]
Selected(e) == \E i \in DOMAIN new_entries : new_entries[i] = e
Rank(e) == CHOOSE n \in 0..(Len(entries) - 1) : sorted_entries(entries)[n + 1] = e
AtSelection == pc = "selected"

\* C1: with a stored watermark W and no forced replay, an entry is selected
\* if and only if its publish instant is strictly greater than W (an entry
\* published exactly at W is not selected).
C1_SelectedIffNewer ==
    (AtSelection /\ CurFeed \in DOMAIN file_data /\ force_latest = 0) =>
        \A i \in DOMAIN entries :
            Selected(entries[i]) <=> Instant(entries[i]) > file_data[CurFeed]

\* C2: a feed that is absent from the loaded watermark map has every fetched
\* entry selected, whatever the forced-replay count and the publish instants.
C2_FirstRunSelectsAll ==
    (AtSelection /\ CurFeed \notin DOMAIN loaded_file) =>
        /\ Len(new_entries) = Len(entries)
        /\ \A i \in DOMAIN entries : Selected(entries[i])

\* C2's case: a first run of a feed selects an entry that a stored watermark
\* of time zero would have left out
C2_Witness ==
    /\ AtSelection
    /\ CurFeed \notin DOMAIN loaded_file
    /\ force_latest = 0
    /\ \E i \in DOMAIN entries :
        /\ Selected(entries[i])
        /\ ~struct_time_gt(entries[i].published_parsed,
                           fromtimestamp_timetuple(0, tz))

\* C3: with F > 0 the entries of rank below F are selected whatever the
\* watermark, and an entry of rank F or more is selected only if its publish
\* instant is strictly greater than the watermark.
C3_ForcedReplay ==
    (AtSelection /\ CurFeed \in DOMAIN file_data /\ force_latest > 0) =>
        \A i \in DOMAIN entries :
            /\ Rank(entries[i]) < force_latest => Selected(entries[i])
            /\ (Rank(entries[i]) >= force_latest /\ Selected(entries[i]))
                   => Instant(entries[i]) > file_data[CurFeed]

\* C4: the selected entries are in descending order of publish instant,
\* entries of equal instant in the order of the fetched feed, and they are
\* dispatched in that order.
C4_DescendingStable ==
    /\ \A i, j \in DOMAIN new_entries :
        i < j =>
            /\ Instant(new_entries[i]) >= Instant(new_entries[j])
            /\ Instant(new_entries[i]) = Instant(new_entries[j])
                   => new_entries[i].id < new_entries[j].id
    /\ \A a, b \in DOMAIN dispatched :
        (a < b /\ dispatched[a][1] = dispatched[b][1])
            => dispatched[a][2] <= dispatched[b][2]

\* C4's case: two selected entries of equal instant, both dispatched
C4_Witness ==
    /\ pc = "update"
    /\ Len(new_entries) = 2
    /\ Instant(new_entries[1]) = Instant(new_entries[2])
    /\ \E a, b \in DOMAIN dispatched :
        /\ dispatched[a][1] = idx /\ dispatched[a][2] = 1
        /\ dispatched[b][1] = idx /\ dispatched[b][2] = 2

\* whether feed f has the same watermark in the store as when the run loaded it
SameInStore(f) ==
    /\ f \in DOMAIN file_data <=> f \in DOMAIN loaded_file
    /\ f \in DOMAIN file_data => file_data[f] = loaded_file[f]

\* whether feed f has in memory the watermark the run loaded for it
SameInMemory(f) ==
    /\ f \in DOMAIN last_runs <=> f \in DOMAIN loaded_file
    /\ f \in DOMAIN last_runs => mktime(last_runs[f], tz) = loaded_file[f]

\* whether this run has written the watermark file in full
Saved == stored = 1 /\ ~file_torn

\* C5: the watermark a run saves for a feed is never less than the watermark
\* the run loaded for it.
C5_WatermarkNeverBackward ==
    Saved =>
        \A f \in DOMAIN loaded_file :
            f \in DOMAIN file_data /\ file_data[f] >= loaded_file[f]

\* C5's case: a run has saved a watermark later than the one it loaded
C5_Witness ==
    /\ Saved
    /\ \E f \in DOMAIN loaded_file : file_data[f] > loaded_file[f]

\* C6: a feed without a selected entry in the run keeps its watermark, in
\* memory and in the saved store; a feed without a watermark still has none.
C6_NoSelectionNoWrite ==
    \A f \in Feeds \ yielded :
        /\ pc # "idle" => SameInMemory(f)
        /\ ~file_torn => SameInStore(f)

\* C6's case: a run has been saved in which one feed with a watermark was
\* parsed without a selected entry while another feed was updated
C6_Witness ==
    /\ Saved
    /\ \E f \in DOMAIN loaded_file, g \in yielded :
        /\ f \notin yielded
        /\ \E i \in DOMAIN processed : processed[i] = f
        /\ ~SameInStore(g)

\* C7: a failure of a publisher on an entry stays inside the publisher: no
\* run ends in a publisher call.
C7_PublisherFailureContained ==
    crash \notin {"post_to_bluesky", "post_to_reddit", "post_to_discord"}

\* whether the last process ended in one of the startup configuration checks
StartupRejected == crash = "none" /\ exit_code \in {1, 2}

\* C8: a run that passed the startup checks does not end without having
\* saved the watermark map.
C8_RunPersists ==
    (pc = "idle" /\ runs > 0 /\ ~StartupRejected) => Saved

C10_UndatedEntryHandled ==
    crash # "sorted"

\* C11: a failure to resolve an entry's image (the download in download_image,
\* or resize_image finding no size under the byte ceiling) degrades the post
\* to text: it never ends the run in Post.from_entry or in post_to_bluesky.
C11_MediaFailureDegrades ==
    crash \notin {"download_image", "post_to_bluesky"}

\* C12: a save that fails, at whatever point, leaves the watermark file with
\* exactly the contents the run found: never empty, truncated or partial.
C12_SaveAtomic ==
    crash = "store_last_runs" =>
        /\ ~file_torn
        /\ file_data = loaded_file

\* C13: the saved map has exactly the feeds that were loaded plus the feeds
\* updated in the run; a loaded feed that the run did not update, configured
\* or not, is saved with the value it was loaded with.
C13_NoWatermarkDropped ==
    /\ pc # "idle" => DOMAIN loaded_file \subseteq DOMAIN last_runs
    /\ Saved =>
        /\ DOMAIN file_data = DOMAIN loaded_file \cup yielded
        /\ \A f \in DOMAIN loaded_file \ yielded :
               file_data[f] = loaded_file[f]

\* C13's case: a run that updated a configured feed has saved the map, and
\* the map it loaded had a feed that is not configured any more
C13_Witness ==
    /\ Saved
    /\ yielded # {}
    /\ \E f \in DOMAIN loaded_file :
        /\ \A i \in DOMAIN processed : processed[i] # f
        /\ f \in DOMAIN file_data

\* C14: a run that finds LAST_RUNS_PATH or RSS_FEED_URLS unset ends before a
\* feed is fetched, before a publisher is called and without opening the
\* watermark file for writing; the first case ends with exit status 1, the
\* second with exit status 2.
C14_MissingConfigStopsRun ==
    missing_config \in {"LAST_RUNS_PATH", "RSS_FEED_URLS"} =>
        /\ pc = "idle"
        /\ processed = <<>>
        /\ dispatched = <<>>
        /\ stored = 0
        /\ file_data = loaded_file
        /\ exit_code = (IF missing_config = "LAST_RUNS_PATH" THEN 1 ELSE 2)

\* C14's case: with a watermark file in place from an earlier run, a run has
\* ended on the missing feed list
C14_Witness ==
    /\ missing_config = "RSS_FEED_URLS"
    /\ exit_code = 2
    /\ file_exists
    /\ DOMAIN file_data # {}

\* whether main is past the startup loads, in or after the feed loop
InFeedLoop ==
    pc \in {"feed", "selected", "from_entry", "bluesky", "reddit", "discord",
            "update"}

\* whether every selected entry of the i-th parsed feed has been handed to
\* every active publisher
AllDispatched(i) ==
    \A kk \in 1..n_selected[i], s \in active_socials :
        \E a \in DOMAIN dispatched : dispatched[a] = <<i, kk, s>>

\* C15: now is the instant at which the run started, taken before the first
\* feed is fetched; the watermark of a feed with selected entries is set to
\* it only once all its selected entries have been dispatched, and until
\* then the feed keeps the watermark the run loaded; every feed the run
\* updated is saved with that one instant.
C15_WatermarkIsRunStart ==
    /\ InFeedLoop =>
        /\ now = fromtimestamp_timetuple(started_at, tz)
        /\ started_at = clock
        /\ \A i \in DOMAIN processed :
            IF i < idx /\ n_selected[i] > 0
            THEN /\ processed[i] \in DOMAIN last_runs
                 /\ last_runs[processed[i]] = now
                 /\ AllDispatched(i)
            ELSE SameInMemory(processed[i])
    /\ (pc = "load_active_socials") => (started_at = -1 /\ processed = <<>>)
    /\ Saved => \A f \in yielded :
                    f \in DOMAIN file_data /\ file_data[f] = started_at

\* C15's case: two feeds were updated in a run that started after the
\* publish instant of the entries it dispatched last
C15_Witness ==
    /\ pc = "feed"
    /\ idx > Len(feed_urls)
    /\ Cardinality(yielded) = 2
    /\ active_socials # {}
    /\ entries # <<>>
    /\ \A i \in DOMAIN entries : Instant(entries[i]) < started_at
    /\ last_runs[feed_urls[1]] = now
    /\ last_runs[feed_urls[2]] = now

C17_MissingCredentialReportedOnce ==
    \A s \in Socials : config_errors[s] <= 1

\* the place of a publisher in the order of the three ifs of the entry loop
SocialRank(s) == CASE s = "bluesky" -> 1 [] s = "reddit" -> 2 [] s = "discord" -> 3

\* whether publisher call x comes before publisher call y in the order feed,
\* entry, publisher
CallBefore(x, y) ==
    \/ x[1] < y[1]
    \/ x[1] = y[1] /\ x[2] < y[2]
    \/ x[1] = y[1] /\ x[2] = y[2] /\ SocialRank(x[3]) < SocialRank(y[3])

\* whether the publisher calls made so far followed the order configured
\* feed, then selected entry from the most recent on, then bluesky, reddit,
\* discord, none of them made twice
DispatchInOrder ==
    \A a, b \in DOMAIN dispatched :
        a < b => CallBefore(dispatched[a], dispatched[b])

\* whether every publisher that was called at all has been called for every
\* selected entry of every parsed feed
DispatchComplete ==
    \A a \in DOMAIN dispatched, i \in DOMAIN n_selected :
        \A kk \in 1..n_selected[i] :
            \E b \in DOMAIN dispatched :
                dispatched[b] = <<i, kk, dispatched[a][3]>>

\* C18: the publisher calls of a run follow the fixed order of feeds, entries
\* and publishers, and when the run has ended each pair of a selected entry
\* and an active publisher has been attempted exactly once.
C18_FixedOrderExactlyOnce ==
    /\ DispatchInOrder
    /\ pc = "idle" => DispatchComplete

\* C19: a run opens the watermark file for writing at most once, and only
\* when every configured feed has been through the feed loop; no other step
\* of a run changes the file, so a run that ends earlier leaves it as it
\* found it; a run that ends with status 0 has saved exactly once.
C19_SavedOnceAtEnd ==
    [][/\ stored' > stored =>
            /\ stored = 0
            /\ pc = "feed"
            /\ idx > Len(feed_urls)
            /\ processed = feed_urls
       /\ stored' <= stored => UNCHANGED store_vars
       /\ exit_code' = 0 => (stored' = 1 /\ ~file_torn')]_vars

\* C19's case: a run over two feeds has ended with the one save, which
\* changed the file
C19_Witness ==
    /\ pc = "idle"
    /\ exit_code = 0
    /\ Saved
    /\ Len(processed) = 2
    /\ yielded # {}
    /\ file_data # loaded_file

\* C20: without forced replay, an entry whose publish instant is the
\* watermark an earlier run saved for its feed, the start instant of that
\* run, is selected by the run that fetches it.
C20_StartInstantNotMissed ==
    (AtSelection /\ runs > 1 /\ force_latest = 0
        /\ CurFeed \in DOMAIN loaded_file) =>
        \A i \in DOMAIN entries :
            Instant(entries[i]) = loaded_file[CurFeed] => Selected(entries[i])

====
